---- MODULE Spec2Model ----
(***************************************************************************)
(* Voice-driven spelling quiz: the SpellBeeGame phase controller           *)
(* (src/unnamed/part_001) on top of the speech recognizer wrapper          *)
(* (src/recognizer.js).                                                    *)
(*                                                                         *)
(* Text is a sequence of one-character strings, so that trimming, case     *)
(* folding, tokenising and substring search are computed, not assumed.     *)
(* Time is counted in poll ticks (one tick = pollingIntervalMs = 250 ms).  *)
(* A recognition confidence is an integer number of thousandths.           *)
(***************************************************************************)
EXTENDS Integers, Sequences, FiniteSets, TLC

\* ---------------------------------------------------------------- bounds
\* PHASES.ANSWER.seconds, in poll ticks, scaled down (the program: 240).
AnswerTicks == 2
\* PHASES.SPELL.seconds, in poll ticks, scaled down (the program: 80).
SpellTicks == 2
\* PHASES.WAIT.seconds, in poll ticks, scaled down (the program: 40).
WaitTicks == 2
\* Utterances queued in speechSynthesis and not yet completed.
MaxPending == 2
\* The environment stops delivering results once finalText is this long.
MaxText == 5
\* The game is constructed with the first WordCount entries of data.js.
WordCount == 2

\* ------------------------------------------------------------- constants
\* getFinalText keeps the last 200 characters.
capLength == 200

\* ------------------------------------------------------------ characters
Lower == <<"a","b","c","d","e","f","g","h","i","j","k","l","m",
           "n","o","p","q","r","s","t","u","v","w","x","y","z">>
Upper == <<"A","B","C","D","E","F","G","H","I","J","K","L","M",
           "N","O","P","Q","R","S","T","U","V","W","X","Y","Z">>

LowerSet == {Lower[i] : i \in 1..26}
UpperSet == {Upper[i] : i \in 1..26}

IsSpace(c) == c = " "

\* String.prototype.toLowerCase / toUpperCase, one character.
toLowerCase(c) ==
    IF c \in UpperSet THEN Lower[CHOOSE i \in 1..26 : Upper[i] = c] ELSE c

toUpperCase(c) ==
    IF c \in LowerSet THEN Upper[CHOOSE i \in 1..26 : Lower[i] = c] ELSE c

LowerStr(s) == [i \in 1..Len(s) |-> toLowerCase(s[i])]
UpperStr(s) == [i \in 1..Len(s) |-> toUpperCase(s[i])]

\* String.prototype.trim
RECURSIVE TrimLeft(_)
TrimLeft(s) ==
    IF s # <<>> /\ IsSpace(Head(s)) THEN TrimLeft(Tail(s)) ELSE s

RECURSIVE TrimRight(_)
TrimRight(s) ==
    IF s # <<>> /\ IsSpace(s[Len(s)]) THEN TrimRight(SubSeq(s, 1, Len(s) - 1))
    ELSE s

trim(s) == TrimRight(TrimLeft(s))

\* s.replace(/\s+/g, "")
noSpace(s) == SelectSeq(s, LAMBDA c : ~IsSpace(c))

\* String.prototype.includes
includes(s, sub) ==
    \E str \in {s}, searchString \in {sub} :
        \E i \in 0..(Len(str) - Len(searchString)) :
            SubSeq(str, i + 1, i + Len(searchString)) = searchString

\* s.split(/\s+/).filter(Boolean): the maximal runs of non-space characters.
RECURSIVE splitFrom(_, _, _)
splitFrom(s, cur, acc) ==
    IF s = <<>> THEN (IF cur = <<>> THEN acc ELSE Append(acc, cur))
    ELSE IF IsSpace(Head(s))
         THEN splitFrom(Tail(s), <<>>, IF cur = <<>> THEN acc ELSE Append(acc, cur))
         ELSE splitFrom(Tail(s), Append(cur, Head(s)), acc)

split(s) == splitFrom(s, <<>>, <<>>)

RECURSIVE Concat(_)
Concat(ss) == IF ss = <<>> THEN <<>> ELSE Head(ss) \o Concat(Tail(ss))

\* ------------------------------------------------------ PhoneticDecoder
phoneticMap ==
    (<<"a","l","p","h","a">> :> "A") @@
    (<<"a","l","f","a">> :> "A") @@
    (<<"a">> :> "A") @@
    (<<"a","y">> :> "A") @@
    (<<"e","i","g","h","t">> :> "A") @@
    (<<"h","e","y">> :> "A") @@
    (<<"b","r","a","v","o">> :> "B") @@
    (<<"b">> :> "B") @@
    (<<"b","e","e">> :> "B") @@
    (<<"b","e">> :> "B") @@
    (<<"c","h","a","r","l","i","e">> :> "C") @@
    (<<"c">> :> "C") @@
    (<<"s","e","e">> :> "C") @@
    (<<"s","e","a">> :> "C") @@
    (<<"d","e","l","t","a">> :> "D") @@
    (<<"d">> :> "D") @@
    (<<"d","e","e">> :> "D") @@
    (<<"e","c","h","o">> :> "E") @@
    (<<"e">> :> "E") @@
    (<<"e","e">> :> "E") @@
    (<<"f","o","x","t","r","o","t">> :> "F") @@
    (<<"f">> :> "F") @@
    (<<"e","f">> :> "F") @@
    (<<"g","o","l","f">> :> "G") @@
    (<<"g">> :> "G") @@
    (<<"g","e","e">> :> "G") @@
    (<<"h","o","t","e","l">> :> "H") @@
    (<<"h">> :> "H") @@
    (<<"a","i","t","c","h">> :> "H") @@
    (<<"i","n","d","i","a">> :> "I") @@
    (<<"i">> :> "I") @@
    (<<"e","y","e">> :> "I") @@
    (<<"j","u","l","i","e","t">> :> "J") @@
    (<<"j","u","l","i","e","t","t">> :> "J") @@
    (<<"j">> :> "J") @@
    (<<"j","a","y">> :> "J") @@
    (<<"k","i","l","o">> :> "K") @@
    (<<"k">> :> "K") @@
    (<<"k","a","y">> :> "K") @@
    (<<"l","i","m","a">> :> "L") @@
    (<<"l">> :> "L") @@
    (<<"e","l">> :> "L") @@
    (<<"m","i","k","e">> :> "M") @@
    (<<"m">> :> "M") @@
    (<<"e","m">> :> "M") @@
    (<<"n","o","v","e","m","b","e","r">> :> "N") @@
    (<<"n">> :> "N") @@
    (<<"e","n">> :> "N") @@
    (<<"o","s","c","a","r">> :> "O") @@
    (<<"o">> :> "O") @@
    (<<"o","h">> :> "O") @@
    (<<"z","e","r","o">> :> "O") @@
    (<<"p","a","p","a">> :> "P") @@
    (<<"p">> :> "P") @@
    (<<"p","e","e">> :> "P") @@
    (<<"q","u","e","b","e","c">> :> "Q") @@
    (<<"q">> :> "Q") @@
    (<<"c","u","e">> :> "Q") @@
    (<<"q","u","e","u","e">> :> "Q") @@
    (<<"r","o","m","e","o">> :> "R") @@
    (<<"r">> :> "R") @@
    (<<"a","r","e">> :> "R") @@
    (<<"s","i","e","r","r","a">> :> "S") @@
    (<<"s">> :> "S") @@
    (<<"e","s","s">> :> "S") @@
    (<<"t","a","n","g","o">> :> "T") @@
    (<<"t">> :> "T") @@
    (<<"t","e","e">> :> "T") @@
    (<<"u","n","i","f","o","r","m">> :> "U") @@
    (<<"u">> :> "U") @@
    (<<"y","o","u">> :> "U") @@
    (<<"v","i","c","t","o","r">> :> "V") @@
    (<<"v">> :> "V") @@
    (<<"v","e","e">> :> "V") @@
    (<<"w","h","i","s","k","e","y">> :> "W") @@
    (<<"w">> :> "W") @@
    (<<"d","o","u","b","l","e","y","o","u">> :> "W") @@
    (<<"d","o","u","b","l","e"," ","y","o","u">> :> "W") @@
    (<<"x","-","r","a","y">> :> "X") @@
    (<<"x">> :> "X") @@
    (<<"e","x">> :> "X") @@
    (<<"y","a","n","k","e","e">> :> "Y") @@
    (<<"y">> :> "Y") @@
    (<<"w","h","y">> :> "Y") @@
    (<<"z","u","l","u">> :> "Z") @@
    (<<"z">> :> "Z") @@
    (<<"z","e","e">> :> "Z") @@
    (<<"z","e","d">> :> "Z")

\* str.replace(/[^A-Za-z]/g, "").toUpperCase()
filterAlphabetOnly(str) ==
    UpperStr(SelectSeq(str, LAMBDA c : c \in LowerSet \cup UpperSet))

\* rawText.toLowerCase().replace(/[^a-z\s-]+/g, " ").trim(): every character
\* outside [a-z], whitespace and hyphen becomes a separator.
normalize(rawText) ==
    trim([i \in 1..Len(rawText) |->
            LET c == toLowerCase(rawText[i])
            IN  IF c \in LowerSet \/ IsSpace(c) \/ c = "-" THEN c ELSE " "])

\* The letters one token contributes.
tokenLetters(tok) ==
    IF tok \in DOMAIN phoneticMap THEN <<phoneticMap[tok]>>
    ELSE IF Len(tok) = 1 /\ tok[1] \in LowerSet THEN <<toUpperCase(tok[1])>>
    ELSE IF \A i \in 1..Len(tok) : tok[i] \in LowerSet THEN UpperStr(tok)
    ELSE <<>>

interpretLetters(rawText) ==
    LET tokens == split(normalize(rawText))
    IN  Concat([i \in 1..Len(tokens) |-> tokenLetters(tokens[i])])

\* --------------------------------------------------- AlternativeSelector
\* Math.round(conf * 100) for a confidence in thousandths (half rounds up).
round100(conf) == (conf + 5) \div 10

\* A variant of score that ranks by confidence first and length second.
scoreByConfidence(mapped, conf) == round100(conf) * 1000 + Len(mapped)

score(mapped, conf) == Len(mapped) * 1000 + round100(conf)

\* One iteration of the loop of pickBestAlternative.
pickStep(best, alt, prioritizeAlphabet) ==
    LET raw    == trim(alt.transcript)
        conf   == alt.confidence
        mapped == IF prioritizeAlphabet
                  THEN filterAlphabetOnly(interpretLetters(raw))
                  ELSE raw
    IN  IF score(mapped, conf) > score(best.text, best.conf)
        THEN [text |-> mapped, raw |-> raw, conf |-> conf]
        ELSE best

RECURSIVE pickFrom(_, _, _)
pickFrom(best, alts, prioritizeAlphabet) ==
    IF alts = <<>> THEN best
    ELSE pickFrom(pickStep(best, Head(alts), prioritizeAlphabet),
                  Tail(alts), prioritizeAlphabet)

pickBestAlternative(result, prioritizeAlphabet) ==
    pickFrom([text |-> <<>>, raw |-> <<>>, conf |-> -1000],
             result, prioritizeAlphabet)

\* ------------------------------------------------- TranscriptAccumulator
\* getFinalText: trim, then keep the last capLength characters.
\* A variant of getFinalText that keeps the first capLength characters.
getFinalTextHead(text) ==
    LET t == trim(text)
    IN  IF Len(t) > capLength THEN SubSeq(t, 1, capLength) ELSE t

getFinalText(text) ==
    LET t == trim(text)
    IN  IF Len(t) > capLength THEN SubSeq(t, Len(t) - capLength + 1, Len(t))
        ELSE t

textIncludes(text, substring) ==
    \E t \in {getFinalText(text)} : includes(LowerStr(t), LowerStr(substring))

\* A variant of appendFinal that does not append a letter equal to the one
\* before it.
appendFinalNoRepeat(text, out, prioritizeAlphabet) ==
    IF prioritizeAlphabet
    THEN text \o SelectSeq(out, LAMBDA ch :
                     ch \in UpperSet /\ (text = <<>> \/ ch # text[Len(text)]))
    ELSE IF out # <<>> THEN trim(text \o <<" ">> \o out) ELSE text

\* A variant of appendFinal that appends in both modes as in free-text mode.
appendFinalSpaced(text, out, prioritizeAlphabet) ==
    IF out # <<>> THEN trim(text \o <<" ">> \o out) ELSE text

\* What one final result appends to finalText (the isFinal branch of onresult).
appendFinal(text, out, prioritizeAlphabet) ==
    IF prioritizeAlphabet
    THEN text \o SelectSeq(out, LAMBDA ch : ch \in UpperSet)
    ELSE IF out # <<>> THEN trim(text \o <<" ">> \o out) ELSE text

\* ------------------------------------------------------------ vocabulary
Vocabulary ==
    << [word |-> <<"a","p","p","l","e">>],
       [word |-> <<"y","e","l","l","o","w">>],
       [word |-> <<"g","a","r","d","e","n">>],
       [word |-> <<"m","o","u","n","t","a","i","n">>] >>

\* this.data: the constructor's dataList.
data == SubSeq(Vocabulary, 1, WordCount)

\* ------------------------------------------------------- trigger phrases
PartOfSpeech == <<"p","a","r","t"," ","o","f"," ","s","p","e","e","c","h">>
Part         == <<"p","a","r","t">>
Repeat       == <<"r","e","p","e","a","t">>
Definition   == <<"d","e","f","i","n","i","t","i","o","n">>
Example      == <<"e","x","a","m","p","l","e">>
Sentence     == <<"s","e","n","t","e","n","c","e">>
NextCue      == <<"n","e","x","t">>

\* ------------------------------------------------- what the user may say
\* Recognition results the engine may deliver: 1..4 the quiz words, then
\* "Next" (two alternatives) and "repeat".
Utterances ==
    << <<[transcript |-> Vocabulary[1].word, confidence |-> 900]>>,
       <<[transcript |-> Vocabulary[2].word, confidence |-> 900]>>,
       <<[transcript |-> Vocabulary[3].word, confidence |-> 900]>>,
       <<[transcript |-> Vocabulary[4].word, confidence |-> 900]>>,
       <<[transcript |-> <<"N","e","x","t">>, confidence |-> 850],
         [transcript |-> <<" ","n","e","x","t","."," ">>, confidence |-> 400]>>,
       <<[transcript |-> Repeat, confidence |-> 700]>> >>

\* ================================================================ state
VARIABLES
    currentIdx,            \* SpellBeeGame.currentIdx (0-based)
    state,                 \* SpellBeeGame.state: idle | answer | spell | wait
    seconds,               \* SpellBeeGame.seconds, in poll ticks
    poller,                \* SpellBeeGame._poller is set (the interval runs)
    timers,                \* intervals set by _startPoller and not yet cleared
    gameStarted,           \* SpellBeeGame.gameStarted
    lastRecognizeOptions,  \* SpellBeeGame._lastRecognizeOptions.prioritizeAlphabet
    dialog,                \* what the game last wrote to the dialog element: a
                           \* prompt (askPrompt, spellPrompt), an answer (part,
                           \* repeat, definition, example) or a verdict (tooLong,
                           \* correct, timeUpCorrect, timeUpWrong); the live
                           \* transcript the recognizer renders into the same
                           \* element is presentation and is left out
    timeBar,               \* width of the time bar, in percent
    pending,               \* speak() calls not yet resolved, oldest first, each
                           \* named by the code after its await: start (recognize
                           \* and _startPoller), resume (recognize), wait (free-text
                           \* options and recognize)
    engine,                \* the speech engine: idle | starting | running | stopping
    isRecognizing,         \* recognizer.js isRecognizing
    currentOptions,        \* recognizer.js currentOptions.prioritizeAlphabet
    finalText,             \* recognizer.js finalText
    lastResult,            \* last final result of event.results (<<>>: none)
    everMatched,           \* history: a result of this SPELL phase made the letters
                           \* equal to the word
    halted                 \* history: stop() was the last call on the control
                           \* surface (start, stop, next)

vars == <<currentIdx, state, seconds, poller, timers, gameStarted, lastRecognizeOptions,
          dialog, timeBar, pending, engine, isRecognizing, currentOptions,
          finalText, lastResult, everMatched, halted>>

game == <<currentIdx, state, seconds, poller, timers, gameStarted, lastRecognizeOptions,
          timeBar>>

currentTask == data[currentIdx + 1]

\* ------------------------------------------------------ controller tests
\* A variant of nextIdx that stays on the last word instead of wrapping.
nextIdxClamped(i) == IF i + 1 < Len(data) THEN i + 1 ELSE i

\* (this.currentIdx + 1) % this.data.length
nextIdx(i) == (i + 1) % Len(data)

\* The if/else-if chain of the answer branch of _poll: the first match wins.
triggerRepeatFirst(text) ==
    IF textIncludes(text, Repeat) THEN "repeat"
    ELSE IF textIncludes(text, PartOfSpeech) \/ textIncludes(text, Part) THEN "part"
    ELSE IF textIncludes(text, Definition) THEN "definition"
    ELSE IF textIncludes(text, Example) \/ textIncludes(text, Sentence) THEN "example"
    ELSE "none"

trigger(text) ==
    IF textIncludes(text, PartOfSpeech) \/ textIncludes(text, Part) THEN "part"
    ELSE IF textIncludes(text, Repeat) THEN "repeat"
    ELSE IF textIncludes(text, Definition) THEN "definition"
    ELSE IF textIncludes(text, Example) \/ textIncludes(text, Sentence) THEN "example"
    ELSE "none"

\* A variant of answerOver that ends the phase on the clock alone.
answerOverOnTimeOnly(text, word, s) == s >= AnswerTicks

\* textIncludes(currentTask.word) || seconds >= PHASES.ANSWER.seconds
answerOver(text, word, s) == textIncludes(text, word) \/ s >= AnswerTicks

\* A variant of tooLong that tolerates one letter too many.
tooLongByTwo(liveSpelling, word) == Len(liveSpelling) > Len(word) + 1

\* liveSpelling.length > currentTask.word.length
\* A variant of tooLong that also rejects a spelling as long as the word.
tooLongOrEqual(liveSpelling, word) == Len(liveSpelling) >= Len(word)

tooLong(liveSpelling, word) == Len(liveSpelling) > Len(word)

\* A variant of spelledRight that compares the letters case-sensitively.
spelledRightExact(liveSpelling, word) ==
    liveSpelling # <<>> /\ liveSpelling = word

\* liveSpelling && liveSpelling.toLowerCase() === currentTask.word.toLowerCase()
spelledRight(liveSpelling, word) ==
    liveSpelling # <<>> /\ LowerStr(liveSpelling) = LowerStr(word)

\* seconds >= PHASES.SPELL.seconds
spellTimeUp(s) == s >= SpellTicks

\* seconds >= PHASES.WAIT.seconds
waitTimeUp(s) == s >= WaitTicks

\* A variant of clockAfter under which entering a phase leaves the clock alone.
clockKeptOn(go, s1) == s1

\* this.seconds after a tick: 0 when the tick ends the phase (the first
\* statements of _startAnswerPhase, _startSpellPhase and _startWaitPhase),
\* else the value the tick counted up to.
clockAfter(go, s1) == IF go THEN 0 ELSE s1

\* A variant of nextPhase that leaves SPELL for ANSWER, without WAIT.
nextPhaseSkipsWait(phase) ==
    IF phase = "answer" THEN "spell" ELSE "answer"

\* _endCurrentPhaseAndStartNext: the phase that follows.
nextPhase(phase) ==
    IF phase = "answer" THEN "spell"
    ELSE IF phase = "spell" THEN "wait"
    ELSE "answer"

\* _clearPoller: the live intervals after the call; clearInterval is called
\* only if the handle is set.
clearPoller(handle, live) == IF handle THEN live - 1 ELSE live

\* A variant of _startPoller that sets the new interval without clearing the
\* one whose handle it holds.
startPollerNoClear(handle, live) == live + 1

\* _startPoller: the live intervals after the call.
startPoller(handle, live) == clearPoller(handle, live) + 1

\* Math.round((seconds * 100) / phaseDuration)
percent(s, duration) == (200 * s + duration) \div (2 * duration)

\* ---------------------------------------------------- recognizer calls
\* stopRecognize(): recognition.stop() unless !isRecognizing.
stopRecognize(eng, recognizing) ==
    IF recognizing /\ eng = "running" THEN "stopping" ELSE eng

\* recognize(): the engine after the call. start() throws unless the engine is
\* idle; the recovery stops the engine and its second start() throws as well.
recognize(eng, recognizing) ==
    IF recognizing THEN eng
    ELSE IF eng = "idle" THEN "starting"
    ELSE IF eng = "starting" THEN "stopping"
    ELSE eng

\* speak(): stopRecognize(), then one more utterance in the synthesis queue.
Speak(kinds) ==
    /\ pending' = pending \o kinds
    /\ Len(pending') <= MaxPending
    /\ engine' = IF kinds # <<>> THEN stopRecognize(engine, isRecognizing) ELSE engine

\* ------------------------------------------- the vocabulary of the claims
\* (stated apart from the operators of the code)
Target == data[currentIdx + 1].word

\* The accumulated text contains the phrase, whatever the case.
Said(text, phrase) == includes(LowerStr(trim(text)), LowerStr(phrase))

\* The accumulated letters, whitespace removed.
Letters(text) == noSpace(trim(text))

SameWord(a, b) == LowerStr(a) = LowerStr(b)

\* The history variables. halted: stop() was the last call on the control
\* surface. everMatched: during this SPELL phase of a running game, with no
\* prompt being spoken, a result heard in letters mode has made the
\* accumulated letters equal to the target word.
History(stopped) ==
    /\ halted' = stopped
    /\ everMatched' =
        /\ state = "spell"
        /\ state' = "spell"
        /\ \/ everMatched
           \/ /\ gameStarted
              /\ pending = <<>>
              /\ currentOptions
              /\ finalText' # finalText
              /\ SameWord(Letters(finalText'), Target)

Init ==
    /\ currentIdx = 0
    /\ state = "idle"
    /\ seconds = 0
    /\ poller = FALSE
    /\ timers = 0
    /\ gameStarted = FALSE
    /\ lastRecognizeOptions = FALSE
    /\ dialog = "empty"
    /\ timeBar = 0
    /\ pending = <<>>
    /\ engine = "idle"
    /\ isRecognizing = FALSE
    /\ currentOptions = FALSE
    /\ finalText = <<>>
    /\ lastResult = <<>>
    /\ everMatched = FALSE
    /\ halted = FALSE

\* ------------------------------------------------------ control surface
\* start(): gameStarted, then _startAnswerPhase() up to its await.
Start ==
    /\ ~gameStarted
    /\ gameStarted' = TRUE
    /\ state' = "answer"
    /\ seconds' = 0
    /\ lastRecognizeOptions' = FALSE
    /\ dialog' = "askPrompt"
    /\ Speak(<<"start">>)
    /\ UNCHANGED <<currentIdx, poller, timers, timeBar, isRecognizing, currentOptions,
                   finalText, lastResult>>
    /\ History(FALSE)

\* stop()
Stop ==
    /\ gameStarted' = FALSE
    /\ poller' = FALSE
    /\ timers' = clearPoller(poller, timers)
    /\ engine' = stopRecognize(engine, isRecognizing)
    /\ UNCHANGED <<currentIdx, state, seconds, lastRecognizeOptions, dialog, timeBar,
                   pending, isRecognizing, currentOptions, finalText, lastResult>>
    /\ History(TRUE)

\* next() called from outside (a manual skip): advance the
\* word, _transitionToAnswer(), _startAnswerPhase() up to its await.
NextWord ==
    /\ currentIdx' = nextIdx(currentIdx)
    /\ state' = "answer"
    /\ seconds' = 0
    /\ lastRecognizeOptions' = FALSE
    /\ dialog' = "askPrompt"
    /\ Speak(<<"resume">>)
    /\ UNCHANGED <<poller, timers, gameStarted, timeBar, isRecognizing, currentOptions,
                   finalText, lastResult>>
    /\ History(FALSE)

\* ------------------------------------------------------------ poll tick
\* _poll() in the answer phase: the time bar, the trigger chain, then the
\* hand-over to the spell phase (_endCurrentPhaseAndStartNext, _startSpellPhase
\* up to its await).
PollAnswer ==
    /\ poller
    /\ state = "answer"
    /\ \E s1 \in {seconds + 1}, t0 \in {getFinalText(finalText)} :
       \E q \in {trigger(t0)} :
       \E t1 \in {IF q = "none" THEN t0 ELSE <<>>} :
       \E go \in {answerOver(t1, currentTask.word, s1)} :
           /\ timeBar' = percent(s1, AnswerTicks)
           /\ finalText' = t1
           /\ state' = IF go THEN nextPhase(state) ELSE state
           /\ seconds' = clockAfter(go, s1)
           /\ lastRecognizeOptions' = IF go THEN TRUE ELSE lastRecognizeOptions
           /\ dialog' = IF go THEN "spellPrompt"
                        ELSE IF q # "none" THEN q ELSE dialog
           /\ Speak((IF q # "none" THEN <<q>> ELSE <<>>)
                    \o (IF go THEN <<"resume">> ELSE <<>>))
    /\ UNCHANGED <<currentIdx, poller, timers, gameStarted, isRecognizing, currentOptions,
                   lastResult>>
    /\ History(halted)

\* _poll() in the spell phase: too long, correct, or time up; each ends the
\* phase (_endCurrentPhaseAndStartNext, _startWaitPhase up to its await).
PollSpell ==
    /\ poller
    /\ state = "spell"
    /\ \E s1 \in {seconds + 1}, t0 \in {getFinalText(finalText)} :
       \E live \in {noSpace(t0)}, word \in {currentTask.word} :
       \E over \in {tooLong(live, word)} :
       \E good \in {~over /\ spelledRight(live, word)} :
       \E late \in {~over /\ ~good /\ spellTimeUp(s1)} :
       \E go \in {over \/ good \/ late} :
           /\ timeBar' = percent(s1, SpellTicks)
           /\ finalText' = t0
           /\ dialog' = IF over THEN "tooLong"
                        ELSE IF good THEN "correct"
                        ELSE IF late
                             THEN (IF LowerStr(live) = LowerStr(word)
                                   THEN "timeUpCorrect" ELSE "timeUpWrong")
                        ELSE dialog
           /\ state' = IF go THEN nextPhase(state) ELSE state
           /\ seconds' = clockAfter(go, s1)
           /\ Speak(IF go THEN <<"wait">> ELSE <<>>)
    /\ UNCHANGED <<currentIdx, poller, timers, gameStarted, lastRecognizeOptions,
                   isRecognizing, currentOptions, lastResult>>
    /\ History(halted)

\* A variant of the wait branch of _poll without its time-out test: only
\* "next" ends the phase, and the clock stops at the phase duration.
PollWaitHeardOnly ==
    /\ poller
    /\ state = "wait"
    /\ \E s1 \in {seconds + 1}, t0 \in {getFinalText(finalText)} :
       \E said \in {textIncludes(t0, NextCue)} :
       \E late \in {FALSE} :
       \E idx1 \in {IF said THEN nextIdx(currentIdx) ELSE currentIdx} :
       \E go \in {said \/ late} :
           /\ timeBar' = percent(IF s1 < WaitTicks THEN s1 ELSE WaitTicks, WaitTicks)
           /\ finalText' = IF said THEN <<>> ELSE t0
           /\ currentIdx' = IF late THEN nextIdx(idx1) ELSE idx1
           /\ state' = IF go THEN "answer" ELSE "wait"
           /\ seconds' = IF go THEN 0 ELSE IF s1 < WaitTicks THEN s1 ELSE WaitTicks
           /\ lastRecognizeOptions' = IF go THEN FALSE ELSE lastRecognizeOptions
           /\ dialog' = IF go THEN "askPrompt" ELSE dialog
           /\ Speak((IF said THEN <<"resume">> ELSE <<>>)
                    \o (IF late THEN <<"resume">> ELSE <<>>))
    /\ UNCHANGED <<poller, timers, gameStarted, isRecognizing, currentOptions, lastResult>>
    /\ History(halted)

\* A variant of PollWait whose time-out test does not see the clock reset by
\* next(): a tick that finds both "next" and the time-out advances twice.
PollWaitTwice ==
    /\ poller
    /\ state = "wait"
    /\ \E s1 \in {seconds + 1}, t0 \in {getFinalText(finalText)} :
       \E said \in {textIncludes(t0, NextCue)} :
       \E late \in {waitTimeUp(s1)} :
       \E idx1 \in {IF said THEN nextIdx(currentIdx) ELSE currentIdx} :
       \E go \in {said \/ late} :
           /\ timeBar' = percent(s1, WaitTicks)
           /\ finalText' = IF said THEN <<>> ELSE t0
           /\ currentIdx' = IF late THEN nextIdx(idx1) ELSE idx1
           /\ state' = IF go THEN "answer" ELSE "wait"
           /\ seconds' = clockAfter(go, s1)
           /\ lastRecognizeOptions' = IF go THEN FALSE ELSE lastRecognizeOptions
           /\ dialog' = IF go THEN "askPrompt" ELSE dialog
           /\ Speak((IF said THEN <<"resume">> ELSE <<>>)
                    \o (IF late THEN <<"resume">> ELSE <<>>))
    /\ UNCHANGED <<poller, timers, gameStarted, isRecognizing, currentOptions, lastResult>>
    /\ History(halted)

\* _poll() in the wait phase: "next" heard, then the time-out test; each calls
\* next().
PollWait ==
    /\ poller
    /\ state = "wait"
    /\ \E s1 \in {seconds + 1}, t0 \in {getFinalText(finalText)} :
       \E said \in {textIncludes(t0, NextCue)} :
       \E late \in {waitTimeUp(IF said THEN 0 ELSE s1)} :
       \E idx1 \in {IF said THEN nextIdx(currentIdx) ELSE currentIdx} :
       \E go \in {said \/ late} :
           /\ timeBar' = percent(s1, WaitTicks)
           /\ finalText' = IF said THEN <<>> ELSE t0
           /\ currentIdx' = IF late THEN nextIdx(idx1) ELSE idx1
           /\ state' = IF go THEN "answer" ELSE "wait"
           /\ seconds' = clockAfter(go, s1)
           /\ lastRecognizeOptions' = IF go THEN FALSE ELSE lastRecognizeOptions
           /\ dialog' = IF go THEN "askPrompt" ELSE dialog
           /\ Speak((IF said THEN <<"resume">> ELSE <<>>)
                    \o (IF late THEN <<"resume">> ELSE <<>>))
    /\ UNCHANGED <<poller, timers, gameStarted, isRecognizing, currentOptions, lastResult>>
    /\ History(halted)

\* The interval callback. (state is never "idle" while the interval runs.)
Poll == PollAnswer \/ PollSpell \/ PollWait

\* ----------------------------------------------------- speech synthesis
\* utter.onend and the 400 ms buffer: the oldest speak() resolves and the code
\* after its await runs: recognize(), and for start() also _startPoller().
SpeakDone ==
    /\ pending # <<>>
    /\ LET k    == Head(pending)
           opts == IF k = "wait" THEN FALSE ELSE lastRecognizeOptions
       IN  /\ pending' = Tail(pending)
           /\ lastRecognizeOptions' = opts
           /\ currentOptions' = opts
           /\ engine' = recognize(engine, isRecognizing)
           /\ poller' = IF k = "start" THEN TRUE ELSE poller
           /\ timers' = IF k = "start" THEN startPoller(poller, timers) ELSE timers
    /\ UNCHANGED <<currentIdx, state, seconds, gameStarted, timeBar, isRecognizing,
                   finalText, lastResult, dialog>>
    /\ History(halted)

\* utter.onerror: the promise rejects and the code after the await never runs.
SpeakError ==
    /\ pending # <<>>
    /\ pending' = Tail(pending)
    /\ UNCHANGED <<game, dialog, engine, isRecognizing, currentOptions, finalText,
                   lastResult>>
    /\ History(halted)

\* -------------------------------------------------------- engine events
\* recognition.onstart
OnStart ==
    /\ engine = "starting"
    /\ engine' = "running"
    /\ isRecognizing' = TRUE
    /\ UNCHANGED <<game, dialog, pending, currentOptions, finalText, lastResult>>
    /\ History(halted)

\* recognition.onresult for one result of event.results: a final result is
\* appended to finalText, an interim one is only displayed.
\* A variant of onresult that commits interim results as well.
onresultCommitsInterim(result, isFinal) ==
    LET sel == pickBestAlternative(result, currentOptions)
    IN  finalText' = appendFinal(finalText, sel.text, currentOptions)

onresult(result, isFinal) ==
    LET sel == pickBestAlternative(result, currentOptions)
    IN  finalText' = IF isFinal
                     THEN appendFinal(finalText, sel.text, currentOptions)
                     ELSE finalText

\* What the user may say now: the current word, "Next" or "repeat".
Sayable == {currentIdx + 1} \cup (Len(Vocabulary) + 1 .. Len(Utterances))

\* The engine delivers a new result, interim or final.
OnResult ==
    /\ isRecognizing
    /\ Len(finalText) <= MaxText
    /\ \E u \in Sayable, isFinal \in BOOLEAN : onresult(Utterances[u], isFinal)
    /\ UNCHANGED <<game, dialog, pending, engine, isRecognizing, currentOptions,
                   lastResult>>
    /\ History(halted)

\* recognition.onerror (no-speech, not-allowed, ...); the end event follows.
OnError ==
    /\ engine \in {"starting", "running"}
    /\ engine' = "stopping"
    /\ UNCHANGED <<game, dialog, pending, isRecognizing, currentOptions, finalText,
                   lastResult>>
    /\ History(halted)

\* recognition.onend, after a stop or on the engine's own (silence).
OnEnd ==
    /\ engine \in {"running", "stopping"}
    /\ engine' = "idle"
    /\ isRecognizing' = FALSE
    /\ UNCHANGED <<game, dialog, pending, currentOptions, finalText, lastResult>>
    /\ History(halted)

Next ==
    \/ Start
    \/ Stop
    \/ NextWord
    \/ Poll
    \/ SpeakDone
    \/ SpeakError
    \/ OnStart
    \/ OnResult
    \/ OnError
    \/ OnEnd

Spec == Init /\ [][Next]_vars

\* A quiz left to itself: nobody calls stop() or next() from outside.
\* setInterval keeps ticking while the poller is set, and the synthesis engine
\* does not leave an utterance unfinished for ever.
LiveNext ==
    \/ Start
    \/ Poll
    \/ SpeakDone
    \/ SpeakError
    \/ OnStart
    \/ OnResult
    \/ OnError
    \/ OnEnd

LiveSpec ==
    Init /\ [][LiveNext]_vars /\ SF_vars(Poll) /\ WF_vars(SpeakDone)

\* ------------------------------------------- the recognizer on its own
\* recognize(dialog, mic, opts) called by any client.
RecRecognize ==
    /\ \E alpha \in BOOLEAN : currentOptions' = alpha
    /\ engine' = recognize(engine, isRecognizing)
    /\ lastResult' = IF engine' = "starting" THEN <<>> ELSE lastResult
    /\ UNCHANGED <<game, dialog, pending, isRecognizing, finalText>>
    /\ History(halted)

\* stopRecognize() called by any client.
RecStop ==
    /\ engine' = stopRecognize(engine, isRecognizing)
    /\ UNCHANGED <<game, dialog, pending, isRecognizing, currentOptions, finalText,
                   lastResult>>
    /\ History(halted)

\* textClear()
textClear ==
    /\ finalText' = <<>>
    /\ UNCHANGED <<game, dialog, pending, engine, isRecognizing, currentOptions,
                   lastResult>>
    /\ History(halted)

\* The engine delivers a new final result at the end of event.results.
OnResultNew ==
    /\ isRecognizing
    /\ Len(finalText) <= MaxText
    /\ \E u \in Sayable :
          /\ onresult(Utterances[u], TRUE)
          /\ lastResult' = Utterances[u]
    /\ UNCHANGED <<game, dialog, pending, engine, isRecognizing, currentOptions>>
    /\ History(halted)

\* The engine delivers an event whose resultIndex is that of a final result it
\* has delivered before.
OnResultAgain ==
    /\ isRecognizing
    /\ Len(finalText) <= MaxText
    /\ lastResult # <<>>
    /\ onresult(lastResult, TRUE)
    /\ UNCHANGED <<game, dialog, pending, engine, isRecognizing, currentOptions,
                   lastResult>>
    /\ History(halted)

RecNext ==
    \/ RecRecognize
    \/ RecStop
    \/ textClear
    \/ OnStart
    \/ OnResultNew
    \/ OnResultAgain
    \/ OnError
    \/ OnEnd

RecSpec == Init /\ [][RecNext]_vars

\* ------------------------------------------- the recognizer while it listens
MaxSpelled == 5

\* Final results the engine may deliver, each a list of ranked alternatives.
Heard ==
    { <<[transcript |-> <<"a">>, confidence |-> 900]>>,
      <<[transcript |-> <<"p","a","p","a">>, confidence |-> 800],
        [transcript |-> <<"p">>, confidence |-> 300]>>,
      <<[transcript |-> <<"l">>, confidence |-> 700]>>,
      <<[transcript |-> <<"e","c","h","o">>, confidence |-> 900]>>,
      <<[transcript |-> <<"b","e","e">>, confidence |-> 500],
        [transcript |-> <<"b">>, confidence |-> 500],
        [transcript |-> <<"d">>, confidence |-> 900]>>,
      <<[transcript |-> <<"a","-","1"," ","b">>, confidence |-> 800]>>,
      <<[transcript |-> <<"N","e","x","t">>, confidence |-> 850],
        [transcript |-> <<" ","n","e","x","t","."," ">>, confidence |-> 400]>>,
      <<[transcript |-> <<"y","e","s">>, confidence |-> 900]>> }

\* The recognizer after recognize(dialog, mic, opts) and onstart, in either
\* mode, with nothing accumulated.
HearInit ==
    /\ currentIdx = 0
    /\ state = "idle"
    /\ seconds = 0
    /\ poller = FALSE
    /\ timers = 0
    /\ gameStarted = FALSE
    /\ lastRecognizeOptions = FALSE
    /\ dialog = "empty"
    /\ timeBar = 0
    /\ pending = <<>>
    /\ engine = "running"
    /\ isRecognizing = TRUE
    /\ currentOptions \in BOOLEAN
    /\ finalText = <<>>
    /\ lastResult = <<>>
    /\ everMatched = FALSE
    /\ halted = FALSE

\* The engine delivers a new final result.
Hear ==
    /\ isRecognizing
    /\ Len(finalText) < MaxSpelled
    /\ \E result \in Heard :
          /\ onresult(result, TRUE)
          /\ lastResult' = result
    /\ UNCHANGED <<game, dialog, pending, engine, isRecognizing, currentOptions>>
    /\ History(halted)

HearNext == Hear \/ textClear

\* The engine delivers an interim result: the event's last result is not final.
HearInterim ==
    /\ isRecognizing
    /\ Len(finalText) < MaxSpelled
    /\ \E result \in Heard :
          /\ lastResult' = result
          /\ onresult(result, FALSE)
    /\ UNCHANGED <<game, dialog, pending, engine, isRecognizing, currentOptions>>
    /\ History(halted)

InterimNext == Hear \/ HearInterim \/ textClear

InterimSpec == HearInit /\ [][InterimNext]_vars

\* ------------------------------------------- the engine left to itself
\* The recognizer right after recognize(dialog, mic, opts): start() has been
\* called and the start event is still to come.
EngineInit ==
    /\ currentIdx = 0
    /\ state = "idle"
    /\ seconds = 0
    /\ poller = FALSE
    /\ timers = 0
    /\ gameStarted = FALSE
    /\ lastRecognizeOptions = FALSE
    /\ dialog = "empty"
    /\ timeBar = 0
    /\ pending = <<>>
    /\ engine = "starting"
    /\ isRecognizing = FALSE
    /\ currentOptions \in BOOLEAN
    /\ finalText = <<>>
    /\ lastResult = <<>>
    /\ everMatched = FALSE
    /\ halted = FALSE

\* The events of the engine and nothing else: no client calls the recognizer.
EngineNext == OnStart \/ Hear \/ OnError \/ OnEnd

EngineSpec == EngineInit /\ [][EngineNext]_vars /\ WF_vars(OnStart)

HearSpec == HearInit /\ [][HearNext]_vars

\* ------------------------------------------- the selector on two alternatives
MaxPicked == 1

\* Transcripts that decode to no letter, one letter (in two ways) or two.
Transcripts ==
    { <<"1">>, <<"a">>, <<"A","l","p","h","a">>, <<"a"," ","b">> }

\* Confidences in thousandths; 400 and 404 round to 40, 405 rounds to 41.
Confidences == {0, 400, 404, 405, 1000}

Pairs ==
    {<<[transcript |-> t1, confidence |-> c1], [transcript |-> t2, confidence |-> c2]>> :
        t1 \in Transcripts, c1 \in Confidences, t2 \in Transcripts, c2 \in Confidences}

PickInit == HearInit /\ currentOptions = TRUE

\* The engine delivers a final result with two alternatives.
HearPair ==
    /\ isRecognizing
    /\ Len(finalText) < MaxPicked
    /\ \E result \in Pairs :
          /\ lastResult' = result
          /\ onresult(result, TRUE)
    /\ UNCHANGED <<game, dialog, pending, engine, isRecognizing, currentOptions>>
    /\ History(halted)

PickNext == HearPair \/ textClear

PickSpec == PickInit /\ [][PickNext]_vars

\* ------------------------------------------- the accumulator and its cap
MaxOver == 6

\* Free text of n characters as dictation leaves it: words separated by single
\* spaces, the oldest character marked.
LongText(n) ==
    [i \in 1..n |-> IF i = 1 THEN "z" ELSE IF i % 5 = 0 THEN " " ELSE "x"]

\* n % 5 = 0 would end the text with a space, which free-text appends never do.
Lengths ==
    {n \in (0..4) \cup ((capLength - MaxOver)..(capLength + MaxOver)) :
        n = 0 \/ n % 5 # 0}

\* The recognizer in free-text mode after a long dictation and one more result.
TextInit ==
    /\ currentIdx = 0
    /\ state = "idle"
    /\ seconds = 0
    /\ poller = FALSE
    /\ timers = 0
    /\ gameStarted = FALSE
    /\ lastRecognizeOptions = FALSE
    /\ dialog = "empty"
    /\ timeBar = 0
    /\ pending = <<>>
    /\ engine = "running"
    /\ isRecognizing = TRUE
    /\ currentOptions = FALSE
    /\ \E n \in Lengths, result \in Heard :
          /\ lastResult = result
          /\ finalText = appendFinal(LongText(n),
                                     pickBestAlternative(result, FALSE).text, FALSE)
    /\ everMatched = FALSE
    /\ halted = FALSE

\* getFinalText() called by any client: the value returned is the new finalText.
GetFinalText ==
    /\ finalText' = getFinalText(finalText)
    /\ UNCHANGED <<game, dialog, pending, engine, isRecognizing, currentOptions,
                   lastResult>>
    /\ History(halted)

TextSpec == TextInit /\ [][GetFinalText]_vars

\* ------------------------------------------- the ANSWER phase and its questions
\* What the learner may say in one breath during ANSWER: one or two of the
\* trigger phrases, the word itself, or words that ask for nothing.
WhatIsThe == <<"w","h","a","t"," ","i","s"," ","t","h","e">>

Phrases == {PartOfSpeech, Part, Repeat, Definition, Example, Sentence, WhatIsThe,
            Vocabulary[1].word}

Questions ==
    {<<[transcript |-> tr, confidence |-> 800]>> :
        tr \in Phrases \cup {a \o <<" ">> \o b : a \in Phrases, b \in Phrases}}

\* The game after start(): the prompt has been spoken, the engine listens in
\* free-text mode, the poller runs, and one final result has been heard.
AnswerInit ==
    /\ currentIdx = 0
    /\ state = "answer"
    /\ seconds = 0
    /\ poller = TRUE
    /\ timers = 1
    /\ gameStarted = TRUE
    /\ lastRecognizeOptions = FALSE
    /\ dialog = "askPrompt"
    /\ timeBar = 0
    /\ pending = <<>>
    /\ engine = "running"
    /\ isRecognizing = TRUE
    /\ currentOptions = FALSE
    /\ \E result \in Questions :
          /\ lastResult = result
          /\ finalText = appendFinal(<<>>, pickBestAlternative(result, FALSE).text, FALSE)
    /\ everMatched = FALSE
    /\ halted = FALSE

\* The steps of the game up to the end of the ANSWER phase.
AnswerNext ==
    \/ PollAnswer
    \/ SpeakDone
    \/ SpeakError
    \/ OnStart
    \/ OnResult
    \/ OnError
    \/ OnEnd

AnswerSpec == AnswerInit /\ [][AnswerNext]_vars

\* ================================================================ claims
AnyTrigger(text) ==
    \E phrase \in {PartOfSpeech, Part, Repeat, Definition, Example, Sentence} :
        Said(text, phrase)

\* C1, as claimed: whenever the letters have equalled the target word at some
\* moment of a SPELL phase, the phase is left for WAIT with the success verdict.
C1_MatchAtAnyMoment ==
    [][(state = "spell" /\ state' = "wait" /\ everMatched) => dialog' = "correct"]_vars

\* C1, amended: at every SPELL poll tick at which the accumulated letters equal
\* the target word (case-insensitively), the controller leaves SPELL for WAIT on
\* that tick with the success verdict, whatever the elapsed time.
C1_MatchAtTick ==
    [][(PollSpell /\ SameWord(Letters(finalText), Target))
        => (state' = "wait" /\ dialog' = "correct" /\ seconds' = 0)]_vars

\* C1: SPELL was left with the success verdict before its time was up.
C1_Witness ==
    /\ state = "wait"
    /\ dialog = "correct"
    /\ seconds = 0
    /\ timeBar < 100
    /\ finalText = UpperStr(Target)

\* C2: at every SPELL poll tick at which the accumulated letters are strictly
\* longer than the target word, the controller goes to WAIT on that tick with
\* the failure verdict and no success verdict, whatever the elapsed time.
C2_TooLongFailsAtOnce ==
    [][(PollSpell /\ Len(Letters(finalText)) > Len(Target))
        => (state' = "wait" /\ dialog' = "tooLong" /\ seconds' = 0)]_vars

\* C2: SPELL was left on overflow with time remaining.
C2_Witness ==
    /\ state = "wait"
    /\ dialog = "tooLong"
    /\ seconds = 0
    /\ timeBar < 100
    /\ Len(Letters(finalText)) > Len(Target)

\* C3: the ANSWER -> SPELL transition clears the accumulator, so SPELL starts
\* with no text committed during ANSWER.
C3_SpellEntryClears ==
    [][(state = "answer" /\ state' = "spell") => finalText' = <<>>]_vars

\* C4: processing again a final result that was delivered before leaves
\* finalText unchanged.
C4_RedeliveryAppendsNothing ==
    [][OnResultAgain => finalText' = finalText]_vars

\* C5: once in WAIT for a word, the controller eventually enters ANSWER for the
\* next word, whether or not "next" is heard or any result arrives: the poll
\* clock alone advances it.
C5_WaitTimesOut ==
    \A i \in 0..(WordCount - 1) :
        (state = "wait" /\ currentIdx = i)
            ~> (state = "answer" /\ currentIdx = (i + 1) % WordCount)

\* C5: WAIT ran out and the word advanced; the letters spelled for the first
\* word are still in the accumulator, so "next" was never heard.
C5_Witness ==
    /\ state = "answer"
    /\ seconds = 0
    /\ timeBar = 100
    /\ currentIdx = 1
    /\ finalText = UpperStr(Vocabulary[1].word)

\* C6: after stop() and until the next call of start() (or next()), no poll
\* timer runs, no phase or time changes, and recognition is not started.
C6_StopHalts ==
    [][(halted /\ halted')
        => /\ ~poller'
           /\ state' = state
           /\ seconds' = seconds
           /\ currentIdx' = currentIdx
           /\ (engine' = "starting" => engine = "starting")]_vars

\* C7: while a speak() is pending, the recognition engine is stopped or has
\* been told to stop.
C7_SilentWhileSpeaking ==
    pending # <<>> => engine \notin {"starting", "running"}

\* C8: while a speak() is pending, a poll tick changes neither the phase, nor
\* the elapsed time, nor the word.
C8_NoTickWhileSpeaking ==
    [][(Poll /\ pending # <<>>)
        => (state' = state /\ seconds' = seconds /\ currentIdx' = currentIdx)]_vars

\* C9, as claimed: at every ANSWER poll tick at which the accumulated text
\* contains the target word, the controller goes to SPELL on that tick.
C9_WordAlwaysEndsAnswer ==
    [][(PollAnswer /\ Said(finalText, Target)) => state' = "spell"]_vars

\* C9, amended: at every ANSWER poll tick at which the accumulated text
\* contains the target word and none of the trigger phrases, the controller
\* goes to SPELL on that tick, whatever the elapsed time.
C9_WordEndsAnswer ==
    [][(PollAnswer /\ Said(finalText, Target) /\ ~AnyTrigger(finalText))
        => (state' = "spell" /\ seconds' = 0)]_vars

\* C9: ANSWER was left for SPELL on the word, before its time was up.
C9_Witness ==
    /\ state = "spell"
    /\ seconds = 0
    /\ timeBar < 100
    /\ Said(finalText, Target)
    /\ ~AnyTrigger(finalText)

\* C10: wordIndex stays in [0, wordCount); every change of it, and every next(),
\* sets it to (old + 1) mod wordCount.
C10_IndexInRange == currentIdx \in 0..(WordCount - 1)

C10_IndexAdvancesCircularly ==
    /\ []C10_IndexInRange
    /\ [][currentIdx' # currentIdx
            => currentIdx' = (currentIdx + 1) % WordCount]_vars
    /\ [][(NextWord \/ (PollWait /\ state' = "answer"))
            => currentIdx' = (currentIdx + 1) % WordCount]_vars

\* C10: the last index has wrapped to 0.
C10_Witness ==
    /\ currentIdx = 0
    /\ state = "answer"
    /\ timeBar = 100
    /\ seconds = 0
    /\ gameStarted
    /\ dialog = "askPrompt"
    /\ Said(finalText, Vocabulary[WordCount].word)

\* C11: between two poll ticks of one phase the elapsed seconds never decrease,
\* and they are exactly 0 right after every change of phase (ANSWER -> SPELL,
\* SPELL -> WAIT, WAIT -> ANSWER, and the entry into ANSWER by start() or
\* next()).
C11_ClockMonotoneAndReset ==
    /\ [][state' # state => seconds' = 0]_vars
    /\ [][(state' = state /\ currentIdx' = currentIdx /\ gameStarted' = gameStarted)
            => seconds' >= seconds]_vars

\* C11: SPELL has just been left for WAIT on a verdict reached after one full
\* tick of spelling, and the clock is back at 0.
C11_Witness ==
    /\ state = "wait"
    /\ seconds = 0
    /\ timeBar = 100
    /\ dialog \in {"correct", "tooLong", "timeUpWrong"}
    /\ pending # <<>>

\* The answer branches of the ANSWER phase, in the claimed order of priority.
Branches == <<"part", "repeat", "definition", "example">>

BranchNames == {Branches[i] : i \in 1..Len(Branches)}

\* The answers queued by one step.
Queued == IF Len(pending') >= Len(pending)
          THEN SubSeq(pending', Len(pending) + 1, Len(pending'))
          ELSE <<>>

AnswersQueued == SelectSeq(Queued, LAMBDA k : k \in BranchNames)

\* C12: during ANSWER a final result holding one trigger phrase makes exactly one
\* answer branch run at the tick that sees it and leaves the accumulator empty,
\* so that no later tick answers it again; and when that answer has been spoken
\* with the engine at rest, recognition is started again in free-text mode.
C12_OneAnswerThenFreeText ==
    /\ [][(PollAnswer /\ AnyTrigger(finalText))
            => (Len(AnswersQueued) = 1 /\ finalText' = <<>>)]_vars
    /\ [][(SpeakDone /\ Head(pending) \in BranchNames
                     /\ engine = "idle" /\ ~isRecognizing)
            => (engine' = "starting" /\ ~currentOptions')]_vars

\* The trigger phrases of each answer branch.
CuesOf ==
    [part |-> {PartOfSpeech, Part}, repeat |-> {Repeat},
     definition |-> {Definition}, example |-> {Example, Sentence}]

Asked(text, branch) == \E phrase \in CuesOf[branch] : Said(text, phrase)

\* The branch of highest priority among those the text asks for.
Highest(text) ==
    Branches[CHOOSE i \in 1..Len(Branches) :
                /\ Asked(text, Branches[i])
                /\ \A j \in 1..(i - 1) : ~Asked(text, Branches[j])]

\* C13: an ANSWER tick answers nothing when the accumulated text holds no trigger
\* phrase; otherwise it runs exactly one branch, the first in the order part,
\* repeat, definition, example that the text asks for, and clears the
\* accumulator.
C13_HighestPriorityOnly ==
    [][PollAnswer =>
         IF AnyTrigger(finalText)
         THEN AnswersQueued = <<Highest(finalText)>> /\ finalText' = <<>>
         ELSE AnswersQueued = <<>>]_vars

\* C13: the learner asked for the definition and an example in one breath, and
\* the first tick has answered the definition only.
C13_Witness ==
    /\ Said(lastResult[1].transcript, Definition)
    /\ Said(lastResult[1].transcript, Example)
    /\ ~Said(lastResult[1].transcript, Part)
    /\ ~Said(lastResult[1].transcript, Repeat)
    /\ state = "answer"
    /\ seconds = 1
    /\ pending = <<"definition">>
    /\ dialog = "definition"
    /\ finalText = <<>>

\* The letters A to Z.
AtoZ == {"A","B","C","D","E","F","G","H","I","J","K","L","M",
         "N","O","P","Q","R","S","T","U","V","W","X","Y","Z"}

\* What a step has appended to the accumulator (nothing if the old text is not
\* a prefix of the new one).
Appended ==
    IF Len(finalText') >= Len(finalText)
       /\ SubSeq(finalText', 1, Len(finalText)) = finalText
    THEN SubSeq(finalText', Len(finalText) + 1, Len(finalText'))
    ELSE <<>>

\* C14: in letters mode each new final result extends the accumulator by exactly
\* the letters selected for it, in order, with no separator, none lost and none
\* doubled; so after any sequence of results the accumulator is the
\* concatenation of their letters.
C14_LettersConcatenate ==
    [][(Hear /\ currentOptions)
        => finalText' = finalText \o pickBestAlternative(lastResult', TRUE).text]_vars

\* C14: five final results decoding to A, P, P, L, E have been heard.
C14_Witness ==
    /\ currentOptions
    /\ finalText = <<"A","P","P","L","E">>
    /\ lastResult = <<[transcript |-> <<"e","c","h","o">>, confidence |-> 900]>>

\* C15: in letters mode a final result only ever appends characters A to Z.
C15_OnlyCapitalsAppended ==
    [][(Hear /\ currentOptions)
        => /\ SubSeq(finalText', 1, Len(finalText)) = finalText
           /\ \A i \in 1..Len(Appended) : Appended[i] \in AtoZ]_vars

\* C15: a transcript with a hyphen, a digit and a space has been heard in
\* letters mode and has left one capital letter.
C15_Witness ==
    /\ currentOptions
    /\ lastResult = <<[transcript |-> <<"a","-","1"," ","b">>, confidence |-> 800]>>
    /\ finalText = <<"B">>

\* C16: in free-text mode the selector returns the transcript of the first
\* alternative of the result, trimmed, whatever the other alternatives are.
C16_FreeTextTakesFirst ==
    [][(Hear /\ ~currentOptions)
        => pickBestAlternative(lastResult', FALSE).text
             = trim(lastResult'[1].transcript)]_vars

\* The letters each alternative of a result decodes to.
Decoded(result) ==
    [i \in DOMAIN result |->
        filterAlphabetOnly(interpretLetters(trim(result[i].transcript)))]

\* The sum of the scores of the first n alternatives that decode to letters.
RECURSIVE Aggregate(_, _, _)
Aggregate(result, letters, n) ==
    IF n = 0 THEN 0
    ELSE Aggregate(result, letters, n - 1)
         + (IF Decoded(result)[n] = letters
            THEN Len(letters) * 1000 + (result[n].confidence + 5) \div 10
            ELSE 0)

\* The letter sequence of highest summed score, the first seen on a tie.
AggregateWinner(result) ==
    LET total(i) == Aggregate(result, Decoded(result)[i], Len(result))
        w == CHOOSE i \in DOMAIN result :
                /\ \A j \in DOMAIN result : total(j) <= total(i)
                /\ \A j \in 1..(i - 1) : total(j) < total(i)
    IN  Decoded(result)[w]

\* C17: in letters mode the scores of alternatives that decode to the same
\* letters are summed, and the letters of highest summed score are selected.
C17_AgreementIsSummed ==
    [][(Hear /\ currentOptions)
        => pickBestAlternative(lastResult', TRUE).text = AggregateWinner(lastResult')]_vars

\* The number of whitespace-separated tokens of a text.
TokenCount(s) ==
    Cardinality({i \in 1..Len(s) : s[i] # " " /\ (i = 1 \/ s[i - 1] = " ")})

\* C19: the decoder returns at most one letter per token: for every alternative
\* of a result heard in letters mode, the letters decoded are no more than the
\* tokens of the transcript once it is stripped to letters, spaces and hyphens.
C19_OneLetterPerToken ==
    [][(Hear /\ currentOptions)
        => \A i \in DOMAIN lastResult' :
              Len(interpretLetters(lastResult'[i].transcript))
                <= TokenCount(normalize(lastResult'[i].transcript))]_vars

\* The alternative of a pair the claim selects: the longer decoding, else the
\* higher rounded confidence, else the first.
Preferred(result) ==
    LET d  == Decoded(result)
        r1 == (result[1].confidence + 5) \div 10
        r2 == (result[2].confidence + 5) \div 10
    IN  IF Len(d[2]) > Len(d[1]) THEN 2
        ELSE IF Len(d[2]) < Len(d[1]) THEN 1
        ELSE IF r2 > r1 THEN 2
        ELSE 1

\* C18: of two alternatives in letters mode the selector returns the one with
\* the longer decoding whatever the confidences, among equal lengths the one
\* with the higher rounded confidence, and the first one on an exact tie.
C18_LengthThenConfidence ==
    [][HearPair =>
         LET k == Preferred(lastResult')
         IN  pickBestAlternative(lastResult', TRUE)
               = [text |-> Decoded(lastResult')[k],
                  raw  |-> trim(lastResult'[k].transcript),
                  conf |-> lastResult'[k].confidence]]_vars

\* C18: a one-letter alternative of confidence 1 came first and a two-letter
\* alternative of confidence 0 second, and the two letters were selected.
C18_Witness ==
    /\ lastResult = <<[transcript |-> <<"a">>, confidence |-> 1000],
                      [transcript |-> <<"a"," ","b">>, confidence |-> 0]>>
    /\ finalText = <<"A","B">>

\* t is a suffix of s.
IsSuffix(t, s) ==
    Len(t) <= Len(s) /\ SubSeq(s, Len(s) - Len(t) + 1, Len(s)) = t

\* C20 as stated: whatever has been accumulated, the text returned has no
\* leading and no trailing whitespace, is at most capLength long and is a
\* suffix of the trimmed content.
C20_TextTrimmedCappedSuffix ==
    [][GetFinalText =>
         /\ finalText' = <<>> \/ (finalText'[1] # " " /\ finalText'[Len(finalText')] # " ")
         /\ Len(finalText') <= capLength
         /\ IsSuffix(finalText', trim(finalText))]_vars

\* C20 amended: the text returned has no trailing whitespace, is the last
\* capLength characters of the trimmed content (all of it when it is shorter),
\* and has no leading whitespace when the trimmed content is at most capLength
\* long.
C20_TextCappedSuffix ==
    [][GetFinalText =>
         /\ finalText' = <<>> \/ finalText'[Len(finalText')] # " "
         /\ Len(finalText') <= capLength
         /\ Len(finalText') = capLength \/ Len(finalText') = Len(trim(finalText))
         /\ IsSuffix(finalText', trim(finalText))
         /\ Len(trim(finalText)) <= capLength
              => (finalText' = <<>> \/ finalText'[1] # " ")]_vars

\* C20: a content longer than capLength has been cut, and the text returned
\* begins with the space that stood at the cut.
C20_Witness ==
    /\ Len(finalText) = capLength
    /\ finalText[1] = " "
    /\ \A i \in 1..Len(finalText) : finalText[i] # "z"

\* C21: processing an interim result leaves the accumulator as it was, in both
\* modes, so that whatever the poll tests on the accumulator (trigger phrases,
\* the word, the spelling, "next") gives the same answer before and after.
C21_InterimCommitsNothing ==
    [][HearInterim => finalText' = finalText]_vars

\* C21: after one final "a" in letters mode an interim "yes" has been
\* processed, and the accumulator still holds the one letter.
C21_Witness ==
    /\ currentOptions
    /\ finalText = <<"A">>
    /\ lastResult = <<[transcript |-> <<"y","e","s">>, confidence |-> 900]>>

\* recognize() is called while the engine is neither idle nor known to be
\* recognizing: its start() throws, and so does the start() of the recovery.
BothStartsThrow ==
    /\ SpeakDone
    /\ ~isRecognizing
    /\ engine \in {"starting", "stopping"}

\* C22: when the start of the engine throws and the start of the one recovery
\* throws as well, the quiz halts: the poller is stopped and the game is no
\* longer running, so that no phase change or verdict can follow.
C22_EngineUnavailableHalts ==
    [][BothStartsThrow => (~poller' /\ ~gameStarted')]_vars

\* C23: with no stop requested and no call by the controller, an engine that
\* has ended by itself (end event, or error followed by end) becomes active
\* again, and neither the failure nor the restart changes the accumulator.
C23_RestartsByItself ==
    /\ (engine = "idle") ~> (engine \in {"starting", "running"})
    /\ [][(OnError \/ OnEnd \/ OnStart) => finalText' = finalText]_vars

\* C24: an error of the speech synthesis counts as the end of the prompt: the
\* phase entry that awaits it goes on, so an engine at rest is started, and the
\* poller runs once the prompt awaited by start() is over.
C24_SynthesisErrorCompletes ==
    [][SpeakError =>
         /\ (engine = "idle" /\ ~isRecognizing) => engine' = "starting"
         /\ Head(pending) = "start" => poller']_vars

\* C25: recognize() called while a session is active (the engine is running,
\* or has been started and its start event is still to come) neither stops nor
\* restarts the engine and leaves the accumulator alone.
C25_RecognizeWhileActiveIsNoOp ==
    [][(RecRecognize /\ engine \in {"starting", "running"})
        => (engine' = engine /\ finalText' = finalText)]_vars

\* C26: in every reachable state at most one poll interval is live, and it is
\* the one whose handle the game holds.
C26_OnePollTimer ==
    /\ timers <= 1
    /\ poller <=> (timers = 1)

\* C26: start() was called twice around a stop(): the continuation of the first
\* call has started the poller, and that of the second, which will start it
\* again, is still waiting for its prompt.
C26_Witness ==
    /\ gameStarted
    /\ poller
    /\ timers = 1
    /\ pending = <<"start">>

\* C27: a WAIT tick that leaves WAIT advances the word index by exactly one
\* step; on a tick that finds both "next" in the accumulator and the WAIT time
\* used up, the index moves once to the following word, the accumulator is
\* cleared, one prompt is queued and the controller is in ANSWER.
C27_OneStepPerWaitExit ==
    /\ [][(PollWait /\ state' = "answer")
            => currentIdx' = (currentIdx + 1) % WordCount]_vars
    /\ [][(PollWait /\ Said(finalText, NextCue) /\ seconds + 1 >= WaitTicks)
            => /\ currentIdx' = (currentIdx + 1) % WordCount
               /\ finalText' = <<>>
               /\ state' = "answer"
               /\ seconds' = 0
               /\ Len(Queued) = 1]_vars

\* C27: the last tick of WAIT is due, "next" is in the accumulator and nothing
\* is being spoken, so that the coming tick finds both conditions.
C27_Witness ==
    /\ state = "wait"
    /\ poller
    /\ gameStarted
    /\ pending = <<>>
    /\ seconds + 1 = WaitTicks
    /\ Said(finalText, NextCue)

\* C28: at every SPELL tick the accumulator the spelling is read from holds
\* nothing but the letters A to Z.
C28_SpellTextIsCapitals ==
    [][PollSpell => \A i \in 1..Len(finalText) : finalText[i] \in AtoZ]_vars

\* The verdicts of a SPELL phase.
Success == {"correct", "timeUpCorrect"}

Failure == {"tooLong", "timeUpWrong"}

\* C29: WAIT is entered from SPELL only, by a SPELL tick; that tick emits one
\* verdict, which is a success exactly if the accumulated letters, whitespace
\* removed, equal the word whatever the case; a SPELL tick that stays in SPELL
\* emits nothing.
C29_OneVerdictAndRight ==
    /\ [][(state # "wait" /\ state' = "wait") => (state = "spell" /\ PollSpell)]_vars
    /\ [][(PollSpell /\ state' = "wait")
            => /\ dialog' \in Success \cup Failure
               /\ dialog' \in Success <=> SameWord(Letters(finalText), Target)]_vars
    /\ [][(PollSpell /\ state' = "spell") => dialog' = dialog]_vars

\* C29: SPELL has run out of time: its last tick has stopped the running
\* engine and given its one verdict, a failure.
C29_Witness ==
    /\ state = "wait"
    /\ seconds = 0
    /\ timeBar = 100
    /\ dialog = "timeUpWrong"
    /\ pending = <<"wait">>
    /\ engine = "stopping"
    /\ ~SameWord(Letters(finalText), Target)

\* The changes of phase of the cycle.
Cycle == {<<"answer", "spell">>, <<"spell", "wait">>, <<"wait", "answer">>}

\* C30 as stated: a poll tick changes the phase only along the cycle ANSWER ->
\* SPELL -> WAIT -> ANSWER, ANSWER and SPELL ticks leave the word index alone,
\* and a step that is not a tick takes SPELL or WAIT to ANSWER only if it is
\* next().
C30_CycleAndOnlyNextJumps ==
    /\ [][(state' # state /\ <<state, state'>> \notin Cycle) => ~Poll]_vars
    /\ [][currentIdx' # currentIdx => ~(PollAnswer \/ PollSpell)]_vars
    /\ [][(state \in {"spell", "wait"} /\ state' = "answer" /\ ~Poll)
            => NextWord]_vars

\* C30 amended: as above, but a step that is not a tick takes SPELL or WAIT to
\* ANSWER if it is next(), or start() on a game that stop() has stopped.
C30_CycleAndOnlyNextOrStartJumps ==
    /\ [][(state' # state /\ <<state, state'>> \notin Cycle) => ~Poll]_vars
    /\ [][currentIdx' # currentIdx => ~(PollAnswer \/ PollSpell)]_vars
    /\ [][(state \in {"spell", "wait"} /\ state' = "answer" /\ ~Poll)
            => (NextWord \/ Start)]_vars

\* C30: the ticks have taken the first word from ANSWER through SPELL into
\* WAIT, where the game listens in free-text mode and one tick has passed.
C30_Witness ==
    /\ state = "wait"
    /\ currentIdx = 0
    /\ gameStarted
    /\ poller
    /\ seconds = 1
    /\ pending = <<>>
    /\ engine = "running"
    /\ ~currentOptions

====
